---------------------------- MODULE Spec2Model ----------------------------
(***************************************************************************)
(* A model of the form classifier (src/form_classifier.py): the verifier,  *)
(* the response parser of classify_form, the batch runner, the results     *)
(* file of save_results, the cumulative statistics table of save_stats,    *)
(* main() with its summary, and the script src/regenerate_html.py.         *)
(*                                                                         *)
(* Text is a sequence of lexical units.  A unit is one character ("a",     *)
(* "b", " ", "{", ...) or, where only the HTML or JSON tokenizer      *)
(* looks at the text, one token of that tokenizer (the end tag "</tr>",    *)
(* one member of a JSON object).  A JSON value is a record tagged with     *)
(* its Python type.                                                        *)
(***************************************************************************)
EXTENDS Integers, Sequences, FiniteSets, TLC

VARIABLES
    form_configs,   \* FormClassifier.form_configs: form number -> FormConfig
    vin,            \* arguments of a call of _verify_classification
    vout,           \* what that call did: "True", "False", "raise" or "none"
    ptext,          \* a JSON text J the oracle may answer with
    pobj,           \* the object whose members the "J" of ptext stands for
    pout,           \* the results classify_form gives for J, fenced and bare
    env,            \* what main() finds: API key, config file, input folder
    pdf_files,      \* process_folder: list(folder.glob("*.pdf"))
    pc,             \* where main() is
    cf,             \* the frame of the running classify_form call
    results,        \* process_folder: results
    api_log,        \* the calls the oracle served: uploads and deletions
    oracle,         \* the responses the oracle may give in this run
    stats_file,     \* the statistics file
    now,            \* the clock, in runs
    calls,          \* the save_stats calls made: the file before, the batch
    results_file,   \* the results JSON file
    console,        \* what main() printed: its errors and its summary
    exit_status,    \* the exit status of the process, "running" before it ends
    written         \* the files the run opened for writing

vvars == <<vin, vout>>
pvars == <<ptext, pobj, pout>>
rvars == <<env, pdf_files, pc, cf, results, api_log, oracle>>
svars == <<stats_file, now, calls>>
ovars == <<results_file, console, exit_status, written>>
vars == <<form_configs, vvars, pvars, rvars, svars, ovars>>

-----------------------------------------------------------------------------
(* Bounds of the model *)

MaxTitleLen == 4
MaxExpLen == 4
MaxPages == 1
MaxTextLen == 4
MaxDocs == 2
MaxRuns == 2
MaxBatch == 2

-----------------------------------------------------------------------------
(* Text *)

WS == {" "}
Letters == {"a", "b"}

StrUpTo(S, n) == UNION {[1..k -> S] : k \in 0..n}

RECURSIVE LStrip(_)
LStrip(s) == IF s # <<>> /\ Head(s) \in WS THEN LStrip(Tail(s)) ELSE s

RECURSIVE RStrip(_)
RStrip(s) ==
    IF s # <<>> /\ s[Len(s)] \in WS THEN RStrip(SubSeq(s, 1, Len(s) - 1)) ELSE s

\* str.strip()
Strip(s) == RStrip(LStrip(s))

Contains_NonEmpty(sub, s) ==
    /\ sub # <<>>
    /\ \E i \in 0..(Len(s) - Len(sub)) : SubSeq(s, i + 1, i + Len(sub)) = sub

\* sub in s
Contains(sub, s) ==
    \E i \in 0..(Len(s) - Len(sub)) : SubSeq(s, i + 1, i + Len(sub)) = sub

Max(S) == CHOOSE x \in S : \A y \in S : y <= x

-----------------------------------------------------------------------------
(* rapidfuzz.fuzz.partial_ratio *)

\* length of the longest common subsequence
RECURSIVE LCS(_, _)
LCS(s, t) ==
    IF s = <<>> \/ t = <<>> THEN 0
    ELSE IF Head(s) = Head(t) THEN 1 + LCS(Tail(s), Tail(t))
    ELSE LET x == LCS(Tail(s), t)
             y == LCS(s, Tail(t))
         IN IF x >= y THEN x ELSE y

\* fuzz.ratio: the normalized Indel similarity, 100 * 2 * LCS / (|s| + |t|),
\* rounded down to an integer (score >= 85 iff its floor >= 85)
ratio(s, t) ==
    IF Len(s) + Len(t) = 0 THEN 100 ELSE (200 * LCS(s, t)) \div (Len(s) + Len(t))

\* the windows of the longer string the shorter one is aligned with: its
\* prefixes shorter than the shorter string, every window of that length,
\* and its suffixes no longer than it
Windows(short, long) ==
    {SubSeq(long, 1, i) : i \in 1..(Len(short) - 1)}
    \cup {SubSeq(long, i + 1, i + Len(short)) : i \in 0..(Len(long) - Len(short))}
    \cup {SubSeq(long, i + 1, Len(long)) : i \in (Len(long) - Len(short))..(Len(long) - 1)}

partial_ratio_impl(short, long) ==
    Max({0} \cup {ratio(short, w) : w \in Windows(short, long)})

partial_ratio(s1, s2) ==
    IF s1 = <<>> /\ s2 = <<>> THEN 100
    ELSE IF s1 = <<>> \/ s2 = <<>> THEN 0
    ELSE IF Len(s1) < Len(s2) THEN partial_ratio_impl(s1, s2)
    ELSE IF Len(s2) < Len(s1) THEN partial_ratio_impl(s2, s1)
    ELSE LET x == partial_ratio_impl(s1, s2)
             y == partial_ratio_impl(s2, s1)
         IN IF x >= y THEN x ELSE y

-----------------------------------------------------------------------------
(* JSON values, tagged with their Python type *)

Val(t, s, n, d) == [t |-> t, s |-> s, n |-> n, d |-> d]
StrV(s) == Val("str", s, 0, <<>>)
IntV(n) == Val("int", <<>>, n, <<>>)
NoneV == Val("null", <<>>, 0, <<>>)
DictV(d) == Val("dict", <<>>, 0, d)
\* an exception of type e, raised instead of a value
Raise(e) == Val("raise", <<e>>, 0, <<>>)
IsRaise(x) == x.t = "raise"
EmptyDict == DictV(<<>>)

\* x.get(k, default); a value that is no dict has no get()
Get_KeyError(x, k, default) ==
    IF IsRaise(x) THEN x
    ELSE IF x.t # "dict" THEN Raise("AttributeError")
    ELSE IF k \in DOMAIN x.d THEN x.d[k]
    ELSE Raise("KeyError")

Get(x, k, default) ==
    IF IsRaise(x) THEN x
    ELSE IF x.t # "dict" THEN Raise("AttributeError")
    ELSE IF k \in DOMAIN x.d THEN x.d[k]
    ELSE default

-----------------------------------------------------------------------------
(* FormConfig and the config table *)

FormConfig(t1, t2, pages) ==
    [expected_title_1 |-> t1, expected_title_2 |-> t2, expected_pages |-> pages]

KnownForm == <<"1">>
UnknownForm == <<"2">>

-----------------------------------------------------------------------------
(* FormClassifier._verify_classification *)

fuzzy_threshold == 85

title_match_AND(c1, c2, f1, f2) == c1 /\ c2 /\ f1 /\ f2

\* line 326: the title matches if either title matches by either method
title_match(c1, c2, f1, f2) == c1 \/ c2 \/ f1 \/ f2

page_match_Within1(page_count, expected_pages) ==
    /\ page_count.t = "int"
    /\ page_count.n - expected_pages \in {-1, 0, 1}

\* line 329: page_count == expected.expected_pages
page_match(page_count, expected_pages) ==
    page_count.t = "int" /\ page_count.n = expected_pages

\* line 303: form_number in self.form_configs
known_form(configs, form_number) ==
    form_number.t = "str" /\ form_number.s \in DOMAIN configs

unknown_form_result_KeyError == "raise"

\* line 304: return False
unknown_form_result == "False"

strip_raises_NullAsEmpty(form_title) == form_title.t \notin {"str", "null"}

\* line 309: form_title.strip() raises AttributeError on a value that is no
\* string, None included
strip_raises(form_title) == form_title.t # "str"

\* "True" or "False" as returned; "raise" when form_number cannot be hashed
\* or form_title has no strip()
verify_classification(configs, form_number, form_title, page_count) ==
    IF form_number.t = "dict" THEN "raise"
    ELSE IF ~known_form(configs, form_number) THEN unknown_form_result
    ELSE IF strip_raises(form_title) THEN "raise"
    ELSE LET expected == configs[form_number.s]
             extracted_title == Strip(form_title.s)
             expected_title_1 == Strip(expected.expected_title_1)
             expected_title_2 == Strip(expected.expected_title_2)
             contains_match_1 == Contains(expected_title_1, extracted_title)
             contains_match_2 == Contains(expected_title_2, extracted_title)
             fuzzy_match_1 ==
                 partial_ratio(expected_title_1, extracted_title) >= fuzzy_threshold
             fuzzy_match_2 ==
                 partial_ratio(expected_title_2, extracted_title) >= fuzzy_threshold
         IN IF /\ title_match(contains_match_1, contains_match_2,
                              fuzzy_match_1, fuzzy_match_2)
               /\ page_match(page_count, expected.expected_pages)
            THEN "True" ELSE "False"

-----------------------------------------------------------------------------
(* The response text of the oracle and its parsing, classify_form lines    *)
(* 150-175.  In a response text the unit "J" stands for the members of     *)
(* the one JSON object the oracle wrote, "7" for a JSON number and "x"     *)
(* for any character that is no JSON.                                      *)

\* the unit of the backquote character
Tick == "tick"
Fence == <<Tick, Tick, Tick>>
FenceJson == <<Tick, Tick, Tick, "j", "s", "o", "n">>

\* str.startswith, str.endswith
StartsWith(s, p) == Len(s) >= Len(p) /\ SubSeq(s, 1, Len(p)) = p
EndsWith(s, p) == Len(s) >= Len(p) /\ SubSeq(s, Len(s) - Len(p) + 1, Len(s)) = p

\* s[n:], s[:-n]
DropFirst(s, n) == SubSeq(s, n + 1, Len(s))
DropLast(s, n) == SubSeq(s, 1, Len(s) - n)

\* str.replace(p, ''): the leftmost occurrences, not overlapping
RECURSIVE Remove(_, _)
Remove(s, p) ==
    IF s = <<>> THEN <<>>
    ELSE IF StartsWith(s, p) THEN Remove(DropFirst(s, Len(p)), p)
    ELSE <<Head(s)>> \o Remove(Tail(s), p)

strip_fences_AlwaysCut(text) ==
    LET t0 == Strip(text)
        t1 == IF StartsWith(t0, FenceJson) THEN DropFirst(t0, 7) ELSE t0
        t2 == DropLast(t1, IF Len(t1) >= 3 THEN 3 ELSE Len(t1))
    IN Strip(Remove(t2, Fence))

\* lines 151-164
strip_fences(text) ==
    LET t0 == Strip(text)
        t1 == IF StartsWith(t0, FenceJson) THEN DropFirst(t0, 7) ELSE t0
        t2 == IF EndsWith(t1, Fence) THEN DropLast(t1, 3)
              ELSE IF StartsWith(t1, Fence)
                   THEN LET t3 == DropFirst(t1, 3)
                        IN IF EndsWith(t3, Fence) THEN DropLast(t3, 3) ELSE t3
                   ELSE t1
    IN Strip(Remove(t2, Fence))

\* json.loads of a text whose "J" stands for the members of obj
json_loads(text, obj) ==
    LET t == Strip(text)
    IN IF t = <<"7">> THEN IntV(7)
       ELSE IF Len(t) >= 2 /\ Head(t) = "{" /\ t[Len(t)] = "}"
            THEN LET inner == Strip(SubSeq(t, 2, Len(t) - 1))
                 IN IF inner = <<>> THEN EmptyDict
                    ELSE IF inner = <<"J">> THEN obj
                    ELSE Raise("JSONDecodeError")
            ELSE Raise("JSONDecodeError")

\* re.search(r'\{.*\}', text, re.DOTALL).group(): from the first "{" to the
\* last "}" after it; <<>> when there is no match
brace_span(text) ==
    LET opens == {i \in 1..Len(text) : text[i] = "{"}
        closes == {i \in 1..Len(text) : text[i] = "}"}
    IN IF opens = {} THEN <<>>
       ELSE LET first == CHOOSE i \in opens : \A j \in opens : i <= j
                after == {i \in closes : i > first}
            IN IF after = {} THEN <<>> ELSE SubSeq(text, first, Max(after))

\* lines 166-175: the parsed response, or the exception raised
parse_response(text, obj) ==
    LET json_text == strip_fences(text)
        direct == json_loads(json_text, obj)
        json_match == brace_span(json_text)
    IN IF ~IsRaise(direct) THEN direct
       ELSE IF json_match # <<>> THEN json_loads(json_match, obj)
       ELSE Raise("ValueError")

-----------------------------------------------------------------------------
(* ClassificationResult and the rest of classify_form's try block,         *)
(* lines 177-201, with the result of its except block, lines 268-278       *)

ClassificationResult(filename, form_number, form_title, page_count, confidence, llm_response, is_verified, token_usage, error) ==
    [filename |-> filename, form_number |-> form_number,
     form_title |-> form_title, page_count |-> page_count,
     confidence |-> confidence, llm_response |-> llm_response,
     is_verified |-> is_verified, token_usage |-> token_usage, error |-> error]

Low == StrV(<<"Low">>)
High == StrV(<<"High">>)
NoError == "None"
NoUsage == <<>>

error_result_NoError(filename, exc) ==
    ClassificationResult(filename, StrV(<<>>), StrV(<<>>), IntV(0), Low,
                         EmptyDict, FALSE, NoUsage, NoError)

\* lines 268-278; the error report is stood for by the type of the exception
\* its first line names
error_result(filename, exc) ==
    ClassificationResult(filename, StrV(<<>>), StrV(<<>>), IntV(0), Low,
                         EmptyDict, FALSE, NoUsage, exc)

\* lines 150-201 on a response with this text and usage metadata
classify_response(configs, filename, text, obj, usage) ==
    LET llm_response == parse_response(text, obj)
        fc(k) == Get(Get(llm_response, "form_classification", EmptyDict),
                     k, EmptyDict)
        form_number == Get(fc("form_number"), "value", StrV(<<>>))
        form_title == Get(fc("form_title"), "value", StrV(<<>>))
        page_count == Get(fc("page_count"), "value", IntV(0))
        confidence == Get(fc("form_number"), "confidence_level", Low)
        verified == verify_classification(configs, form_number, form_title,
                                          page_count)
    IN IF IsRaise(llm_response) THEN error_result(filename, llm_response.s[1])
       ELSE IF \E x \in {form_number, form_title, page_count, confidence} :
                   IsRaise(x)
            THEN error_result(filename, "AttributeError")
       ELSE IF verified = "raise" THEN error_result(filename, "AttributeError")
       ELSE ClassificationResult(filename, form_number, form_title, page_count,
                                 confidence, llm_response, verified = "True",
                                 usage, NoError)

\* response.usage_metadata
Usage(i, o) ==
    ("input_tokens" :> i) @@ ("output_tokens" :> o) @@ ("total_tokens" :> i + o)

-----------------------------------------------------------------------------
(* Response objects *)

Field(value, conf) == DictV(("value" :> value) @@ ("confidence_level" :> conf))

Classification(fn, ft, pg) ==
    DictV("form_classification" :>
              DictV(("form_number" :> fn) @@ ("form_title" :> ft)
                    @@ ("page_count" :> pg)))

Answer(form, title, pages) ==
    Classification(Field(StrV(form), High), Field(StrV(title), High),
                   Field(IntV(pages), High))

\* the config of the scenarios: one known form
ScenarioConfig == KnownForm :> FormConfig(<<"a", "b">>, <<"b", "a">>, 1)

-----------------------------------------------------------------------------
(* The statistics file, save_stats lines 409-767.  The file is what the    *)
(* HTML tokenizer makes of it: the tokens of its <tbody>, its header row   *)
(* and its summary banner.  In a text the unit "</tr>" stands for those    *)
(* five characters.                                                        *)

Tok(k, n, s) == [k |-> k, n |-> n, s |-> s]
StartTag(n) == Tok("start", n, <<>>)
EndTag(n) == Tok("end", n, <<>>)
Data(s) == Tok("data", "", s)

Markup == {"</tr>"}

\* the longest prefix of a text that holds no markup
RECURSIVE Run(_)
Run(text) ==
    IF text = <<>> \/ Head(text) \in Markup THEN <<>>
    ELSE <<Head(text)>> \o Run(Tail(text))

\* what html.parser reads where a text was written as it is: its markup
\* is tags, the rest is data
RECURSIVE HtmlTokens(_)
HtmlTokens(text) ==
    IF text = <<>> THEN <<>>
    ELSE IF Head(text) \in Markup
         THEN <<EndTag("tr")>> \o HtmlTokens(Tail(text))
    ELSE <<Data(Run(text))>> \o HtmlTokens(DropFirst(text, Len(Run(text))))

\* what html.parser reads where prettify() wrote a string: its markup
\* escaped, so one piece of data, on a line of its own
EscapedTokens(text) == <<Data(<<" ">> \o text \o <<" ">>)>>

\* the concatenation of ss[lo..hi]
RECURSIVE FlattenRange(_, _, _)
FlattenRange(ss, lo, hi) ==
    IF lo > hi THEN <<>>
    ELSE IF lo = hi THEN ss[lo]
    ELSE LET mid == (lo + hi) \div 2
         IN FlattenRange(ss, lo, mid) \o FlattenRange(ss, mid + 1, hi)

Flatten(ss) == FlattenRange(ss, 1, Len(ss))

\* the tokens of one table row, cells[i] the tokens of its i-th text:
\* twelve <td>text</td> and <td><strong>text</strong></td>
RowTokens(cells) ==
    <<StartTag("tr")>>
    \o Flatten([i \in 1..12 |-> <<StartTag("td")>> \o cells[i] \o <<EndTag("td")>>])
    \o <<StartTag("td"), StartTag("strong")>> \o cells[13]
    \o <<EndTag("strong"), EndTag("td")>>
    \o <<EndTag("tr")>>

\* lines 696-747: f.write(f"<td>{row[0]}</td>") and so on
FreshBody(rows) ==
    Flatten([i \in 1..Len(rows) |->
                RowTokens([j \in 1..13 |-> HtmlTokens(rows[i][j])])])

\* lines 549-629 and 640: td.string = row[0] and so on, then prettify()
UpdatedBody(rows) ==
    Flatten([i \in 1..Len(rows) |->
                RowTokens([j \in 1..13 |-> EscapedTokens(rows[i][j])])])

\* BeautifulSoup(content, 'html.parser') on the tokens of a <tbody>: the
\* tree builder keeps a stack of open tags, an end tag closes every tag
\* down to the last open tag of its name and is ignored when none is open.
\* rows: the <tr> elements read so far, each the texts of its <td>
\* elements as get_text(strip=True) gives them.
NoTree ==
    [rows |-> <<>>, inTr |-> FALSE, inTd |-> FALSE, tdInTr |-> FALSE,
     cells |-> <<>>, cur |-> <<>>]

CloseTd(P) ==
    IF ~P.inTd THEN P
    ELSE [P EXCEPT !.inTd = FALSE, !.cur = <<>>,
                   !.cells = IF P.tdInTr THEN Append(P.cells, P.cur) ELSE P.cells]

CloseTr(P) ==
    IF ~P.inTr THEN P
    ELSE LET Q == CloseTd(P)
         IN [Q EXCEPT !.inTr = FALSE, !.cells = <<>>,
                      !.rows = Append(Q.rows, Q.cells)]

Feed(P, tok) ==
    CASE tok.k = "start" /\ tok.n = "tr" ->
             [CloseTr(P) EXCEPT !.inTr = TRUE, !.cells = <<>>]
      [] tok.k = "start" /\ tok.n = "td" ->
             [CloseTd(P) EXCEPT !.inTd = TRUE, !.tdInTr = P.inTr, !.cur = <<>>]
      [] tok.k = "end" /\ tok.n = "td" -> CloseTd(P)
      [] tok.k = "end" /\ tok.n = "tr" -> CloseTr(P)
      [] tok.k = "data" ->
             IF P.inTd THEN [P EXCEPT !.cur = P.cur \o Strip(tok.s)] ELSE P
      [] OTHER -> P

\* the tree after tokens[lo..hi]; the tree after the first half is bound
\* as a value, which keeps TLC's evaluation shallow
RECURSIVE FeedRange(_, _, _, _)
FeedRange(P, tokens, lo, hi) ==
    IF lo > hi THEN P
    ELSE IF lo = hi THEN Feed(P, tokens[lo])
    ELSE LET mid == (lo + hi) \div 2
         IN CHOOSE R \in {FeedRange(Q, tokens, mid + 1, hi) :
                              Q \in {FeedRange(P, tokens, lo, mid)}} : TRUE

FeedAll(P, tokens) == CloseTr(FeedRange(P, tokens, 1, Len(tokens)))

\* table.find('tbody').find_all('tr'), and the cell texts of each
TableRows(file) ==
    IF file.kind = "table" THEN FeedAll(NoTree, file.tbody).rows ELSE <<>>

headers ==
    <<"File Name", "Date", "Form Type", "Conf (Type)", "Title", "Conf (Title)",
      "Pages", "Conf (Pages)", "Input Tokens", "Output Tokens",
      "Expected Title", "Expected Pages", "Success">>

\* lines 448 and 459: a row is kept when it has a cell per header and a cell
\* that is not blank
KeepRow(cells) ==
    /\ Len(cells) >= Len(headers)
    /\ \E i \in 1..Len(cells) : Strip(cells[i]) # <<>>

RECURSIVE SelectRows(_)
SelectRows(rows) ==
    IF rows = <<>> THEN <<>>
    ELSE (IF KeepRow(Head(rows)) THEN <<Head(rows)>> ELSE <<>>)
         \o SelectRows(Tail(rows))

\* lines 418-475
existing_rows(file) == SelectRows(TableRows(file))

\* str(x)
PyStr(v) ==
    CASE v.t = "str" -> v.s
      [] v.t = "int" -> <<ToString(v.n)>>
      [] OTHER -> <<"None">>

\* datetime.now().strftime(...)
Date(t) == <<"t", ToString(t)>>

\* lines 481-515: the row of a result
stats_row(configs, result, t) ==
    LET known == result.form_number.t = "str"
                 /\ result.form_number.s \in DOMAIN configs
        llm_data == Get(result.llm_response, "form_classification", EmptyDict)
        conf(k) == Get(Get(llm_data, k, EmptyDict), "confidence_level", IntV(0))
        tokens(k) == IF k \in DOMAIN result.token_usage
                     THEN result.token_usage[k] ELSE 0
    IN <<result.filename,
         Date(t),
         PyStr(result.form_number),
         PyStr(conf("form_number")),
         PyStr(result.form_title),
         PyStr(conf("form_title")),
         PyStr(result.page_count),
         PyStr(conf("page_count")),
         <<ToString(tokens("input_tokens"))>>,
         <<ToString(tokens("output_tokens"))>>,
         IF known
         THEN configs[result.form_number.s].expected_title_1 \o <<" ", "OR", " ">>
              \o configs[result.form_number.s].expected_title_2
         ELSE <<>>,
         IF known
         THEN <<ToString(configs[result.form_number.s].expected_pages)>>
         ELSE <<>>,
         IF result.is_verified THEN <<"Yes">> ELSE <<"No">> >>

\* lines 540-543 and 681-683
Summary(all_rows) ==
    [total |-> Len(all_rows),
     verified |-> Cardinality({i \in 1..Len(all_rows) : all_rows[i][13] = <<"Yes">>}),
     failed |-> Cardinality({i \in 1..Len(all_rows) : all_rows[i][13] = <<"No">>})]

NoSummary == [total |-> -1, verified |-> -1, failed |-> -1]

StatsFile(kind, thead, tbody, summary) ==
    [kind |-> kind, thead |-> thead, tbody |-> tbody, summary |-> summary]

\* no file; a file that cannot be read as text; a text with no table in it
MissingFile == StatsFile("missing", <<>>, <<>>, NoSummary)
UnreadableFile == StatsFile("unreadable", <<>>, <<>>, NoSummary)
NoTableFile == StatsFile("notable", <<>>, <<>>, NoSummary)

\* lines 652-765
fresh_file(all_rows) ==
    StatsFile("table", headers, FreshBody(all_rows), Summary(all_rows))

\* lines 524-645 on a file that was read and holds a <tbody>
updated_file(file, all_rows) ==
    StatsFile("table", file.thead, UpdatedBody(all_rows), Summary(all_rows))

\* lines 521-765: the file is written afresh when it does not exist or the
\* update raised; a file that was read, with no <tbody> in it, is written
\* back as it is, and so without the rows
rewrite(file, all_rows) ==
    CASE file.kind = "table" -> updated_file(file, all_rows)
      [] file.kind = "notable" -> file
      [] OTHER -> fresh_file(all_rows)

new_rows(configs, batch, t) ==
    [i \in 1..Len(batch) |-> stats_row(configs, batch[i], t)]

\* save_stats(results, stats_file)
save_stats(configs, file, batch, t) ==
    rewrite(file, existing_rows(file) \o new_rows(configs, batch, t))

-----------------------------------------------------------------------------
(* The results file, save_results lines 381-407, and the summary of main,  *)
(* lines 799-812.  The file is the JSON it holds: the array of objects,    *)
(* or the beginning of one.                                                *)

\* the unit of a lone surrogate code point, which json.loads reads from an
\* escape like \ud800 and UTF-8 cannot encode
LoneSurrogate == "U+D800"

BoolV(b) == Val("bool", <<>>, IF b THEN 1 ELSE 0, <<>>)

\* f.write(chunk) with encoding='utf-8' does not raise
RECURSIVE Encodable(_)
Encodable(v) ==
    CASE v.t = "str" -> \A i \in 1..Len(v.s) : v.s[i] # LoneSurrogate
      [] v.t = "dict" -> \A k \in DOMAIN v.d : Encodable(v.d[k])
      [] OTHER -> TRUE

\* lines 389-400: the object of one result, as JSON values
result_object(r) ==
    DictV(("filename" :> StrV(r.filename))
          @@ ("form_number" :> r.form_number)
          @@ ("form_title" :> r.form_title)
          @@ ("page_count" :> r.page_count)
          @@ ("confidence" :> r.confidence)
          @@ ("is_verified" :> BoolV(r.is_verified))
          @@ ("token_usage" :>
                  DictV([k \in DOMAIN r.token_usage |-> IntV(r.token_usage[k])]))
          @@ ("llm_response" :> r.llm_response)
          @@ ("error" :> IF r.error = NoError THEN NoneV ELSE StrV(<<r.error>>)))

ResultsFile(kind, entries) == [kind |-> kind, entries |-> entries]

\* save_results(results, output_file): open(output_file, 'w') empties the
\* file, json.dump writes the array or raises on the way
save_results(res, file) ==
    LET output_data == [i \in 1..Len(res) |-> result_object(res[i])]
    IN IF \A i \in 1..Len(res) : Encodable(output_data[i])
       THEN [file |-> ResultsFile("json", output_data), raised |-> FALSE]
       ELSE [file |-> ResultsFile("partial", <<>>), raised |-> TRUE]

RECURSIVE SumTokens(_)
SumTokens(res) ==
    IF res = <<>> THEN 0
    ELSE (IF "total_tokens" \in DOMAIN Head(res).token_usage
          THEN Head(res).token_usage["total_tokens"] ELSE 0)
         + SumTokens(Tail(res))

\* lines 799-812: the lines of the summary; the token line is printed when
\* a result is verified
run_summary(res) ==
    LET verified_count == Cardinality({i \in 1..Len(res) : res[i].is_verified})
        total_count == Len(res)
        error_count == Cardinality({i \in 1..Len(res) : res[i].error # NoError})
    IN [total |-> total_count, verified |-> verified_count,
        failed |-> total_count - verified_count - error_count,
        errors |-> error_count,
        tokens |-> IF verified_count > 0 THEN <<SumTokens(res)>> ELSE <<>>]

\* a line of the console: which message, and the counts of a summary
Line(msg, data) == [msg |-> msg, data |-> data]

-----------------------------------------------------------------------------
(* The verifier on its own: SpecVerify draws a config table and the        *)
(* arguments of one call, VerifyCall makes the call.                       *)

\* expected titles: every text of letters, and some that trimming changes
ExpTitles ==
    StrUpTo(Letters, MaxExpLen)
    \cup {<<" ">>} \cup {<<" ">> \o t \o <<" ">> : t \in StrUpTo(Letters, 1)}
Titles == StrUpTo(Letters \cup WS, MaxTitleLen)

ConfigTables ==
    {(KnownForm :> FormConfig(t1, t2, p)) :
        t1 \in ExpTitles, t2 \in {<<"b">>, <<"a", "a">>}, p \in 1..MaxPages}
    \cup {(KnownForm :> FormConfig(<<"a", "b">>, t2, p)) :
             t2 \in {<<>>, <<" ">>}, p \in 1..MaxPages}

VerifyArgs ==
    [form_number : {StrV(KnownForm), StrV(UnknownForm)},
     form_title : {StrV(t) : t \in Titles} \cup {NoneV},
     page_count : {IntV(n) : n \in 0..(MaxPages + 1)}]

NoArgs == [form_number |-> NoneV, form_title |-> NoneV, page_count |-> NoneV]

NoFrame == [pc |-> "idle", uploaded_file |-> 0, ret |-> <<>>]

VerifyIdle == vin = NoArgs /\ vout = "none"
ParseIdle == ptext = <<>> /\ pobj = EmptyDict /\ pout = <<>>
RunIdle ==
    /\ env = <<>>
    /\ pdf_files = <<>>
    /\ pc = "idle"
    /\ cf = NoFrame
    /\ results = <<>>
    /\ api_log = <<>>
    /\ oracle = {}

StatsIdle == stats_file = MissingFile /\ now = 0 /\ calls = <<>>

\* the exit status of a process whose main() returned
ExitSuccess == "0"

\* no results file
NoResultsFile == [kind |-> "missing", entries |-> <<>>]

OutIdle ==
    /\ results_file = NoResultsFile
    /\ console = <<>>
    /\ exit_status = "running"
    /\ written = {}

InitVerify ==
    /\ form_configs \in ConfigTables
    /\ vin \in VerifyArgs
    /\ vout = "none"
    /\ ParseIdle
    /\ RunIdle
    /\ StatsIdle
    /\ OutIdle

VerifyCall ==
    /\ vout = "none"
    /\ vout' = verify_classification(form_configs, vin.form_number,
                                     vin.form_title, vin.page_count)
    /\ UNCHANGED <<form_configs, vin, pvars, rvars, svars, ovars>>

NextVerify == VerifyCall

SpecVerify == InitVerify /\ [][NextVerify]_vars

-----------------------------------------------------------------------------
(* The response parser on its own: SpecParse draws a text J and the        *)
(* object it denotes; ParseCall has classify_form parse J as the oracle    *)
(* may send it: alone, in a json fence and in a bare fence.                *)

RespUnits == {"{", "}", "J", " ", "x", Tick}
RespTexts == StrUpTo(RespUnits, MaxTextLen)

ParseObjects ==
    {Answer(KnownForm, <<"a", "b", "a">>, 1), Answer(KnownForm, <<"a", "b">>, 2),
     Answer(UnknownForm, <<"b">>, 1)}

InJsonFence(J) == FenceJson \o <<" ">> \o J \o <<" ">> \o Fence
InBareFence(J) == Fence \o <<" ">> \o J \o <<" ">> \o Fence

ParseUsage == Usage(2, 1)

InitParse ==
    /\ form_configs = ScenarioConfig
    /\ ptext \in RespTexts
    /\ pobj \in ParseObjects
    /\ pout = <<>>
    /\ VerifyIdle
    /\ RunIdle
    /\ StatsIdle
    /\ OutIdle

ParseCall ==
    /\ pout = <<>>
    /\ pout' = [t \in {"plain", "json", "bare"} |->
                   classify_response(form_configs, <<"f">>,
                       CASE t = "plain" -> ptext
                         [] t = "json" -> InJsonFence(ptext)
                         [] t = "bare" -> InBareFence(ptext),
                       pobj, ParseUsage)]
    /\ UNCHANGED <<form_configs, ptext, pobj, vvars, rvars, svars, ovars>>

NextParse == ParseCall

SpecParse == InitParse /\ [][NextParse]_vars

-----------------------------------------------------------------------------
(* A run of the program: main(), process_folder and classify_form.         *)
(* classify_form is three steps, one per call of the oracle: the upload,   *)
(* the generation (with the parsing and verification of its answer) and    *)
(* the deletion of the finally block.                                      *)

Filename(i) == <<"f", ToString(i)>>
Folder(n) == [i \in 1..n |-> Filename(i)]

\* the objects the oracle answers with: a verified answer, a page count off
\* by one, an unknown form, a title that does not match, a null title, and
\* an answer with most keys missing
OracleObjects ==
    {Answer(KnownForm, <<"a", "b", "a">>, 1),
     Answer(KnownForm, <<"a", "b">>, 2),
     Answer(UnknownForm, <<"a", "b">>, 1),
     Answer(KnownForm, <<"b", "b">>, 1),
     Classification(Field(StrV(KnownForm), High), Field(NoneV, High),
                    Field(IntV(1), High)),
     DictV("form_classification" :>
               DictV("form_number" :> DictV("value" :> StrV(KnownForm))))}

InProse(J) == <<"x", " ">> \o J \o <<" ", "x">>
ObjectText == <<"{", "J", "}">>

\* response.text and the object its "J" stands for: an object alone, in
\* either fence or in prose; no JSON at all; braces around no JSON; a number
OracleResponses ==
    {[text |-> t, obj |-> o] :
        t \in {ObjectText, InJsonFence(ObjectText), InBareFence(ObjectText),
               InProse(ObjectText)},
        o \in OracleObjects}
    \cup {[text |-> t, obj |-> EmptyDict] : t \in {<<"x">>, <<"{", "x", "}">>, <<"7">>}}

RunUsage == Usage(2, 1)

\* an entry of api_log: the call, the document it is for, what was answered
NoResponse == [text |-> <<>>, obj |-> EmptyDict]
Call(op, h, r) == [op |-> op, h |-> h, r |-> r]

InitRun ==
    /\ form_configs = <<>>
    /\ env \in [api_key : BOOLEAN, config_ok : BOOLEAN, folder_exists : BOOLEAN]
    /\ pdf_files \in {Folder(n) : n \in 0..MaxDocs}
    /\ pc = "main"
    /\ cf = NoFrame
    /\ results = <<>>
    /\ api_log = <<>>
    /\ oracle = OracleResponses
    /\ VerifyIdle
    /\ ParseIdle
    /\ StatsIdle
    /\ OutIdle

\* main, lines 780-788: the API key, then FormClassifier(api_key, config)
Main ==
    /\ pc = "main"
    /\ IF ~env.api_key
       THEN /\ pc' = "no_key"
            /\ console' = Append(console, Line("no_key", <<>>))
            /\ exit_status' = ExitSuccess
            /\ UNCHANGED form_configs
       ELSE IF ~env.config_ok
       THEN /\ pc' = "error"
            /\ console' = Append(console, Line("error", <<>>))
            /\ exit_status' = ExitSuccess
            /\ UNCHANGED form_configs
       ELSE /\ pc' = "process_folder"
            /\ form_configs' = ScenarioConfig
            /\ UNCHANGED <<console, exit_status>>
    /\ UNCHANGED <<vvars, pvars, env, oracle, pdf_files, cf, results, api_log, svars,
                   results_file, written>>

more_files_StopOnError(res, files) ==
    /\ Len(res) < Len(files)
    /\ (res # <<>> => res[Len(res)].error = NoError)

\* line 357: for pdf_file in pdf_files
more_files(res, files) == Len(res) < Len(files)

folder_missing_Ignored(e) == FALSE

\* line 346: if not folder.exists()
folder_missing(e) == ~e.folder_exists

\* process_folder, lines 343-379, between two documents: raise, return the
\* results, or call classify_form on the next file
ProcessFolder ==
    /\ pc = "process_folder"
    /\ cf.pc = "idle"
    /\ IF folder_missing(env)
       THEN /\ pc' = "error"
            /\ console' = Append(console, Line("error", <<>>))
            /\ exit_status' = ExitSuccess
            /\ UNCHANGED cf
       ELSE IF more_files(results, pdf_files)
            THEN /\ cf' = [pc |-> "upload", uploaded_file |-> 0, ret |-> <<>>]
                 /\ UNCHANGED <<pc, console, exit_status>>
       ELSE pc' = "save_results" /\ UNCHANGED <<cf, console, exit_status>>
    /\ UNCHANGED <<form_configs, vvars, pvars, env, oracle, pdf_files, results, api_log,
                   svars, results_file, written>>

\* classify_form, lines 117-135 and 203-278: upload the file
Upload ==
    /\ cf.pc = "upload"
    /\ LET h == Len(results) + 1
       IN \/ /\ cf' = [cf EXCEPT !.pc = "generate", !.uploaded_file = h]
             /\ api_log' = Append(api_log, Call("upload", h, NoResponse))
          \/ /\ cf' = [cf EXCEPT !.pc = "finally",
                                 !.ret = error_result(pdf_files[h], "ValueError")]
             /\ api_log' = Append(api_log, Call("upload_failed", h, NoResponse))
    /\ UNCHANGED <<form_configs, vvars, pvars, env, oracle, pdf_files, pc, results, svars, ovars>>

\* classify_form, lines 137-278: generate, then parse and verify the answer
Generate ==
    /\ cf.pc = "generate"
    /\ LET h == Len(results) + 1
       IN \/ \E exc \in {"ServerError", "ValueError"} :
                 \* generate_content raises, or response.text does
                 /\ cf' = [cf EXCEPT !.pc = "finally",
                                     !.ret = error_result(pdf_files[h], exc)]
                 /\ api_log' = Append(api_log,
                                      Call("generate_failed", h, NoResponse))
          \/ \E r \in oracle :
                 /\ cf' = [cf EXCEPT !.pc = "finally",
                                     !.ret = classify_response(form_configs,
                                                 pdf_files[h], r.text, r.obj,
                                                 RunUsage)]
                 /\ api_log' = Append(api_log, Call("generate", h, r))
    /\ UNCHANGED <<form_configs, vvars, pvars, env, oracle, pdf_files, pc, results, svars, ovars>>

release_needed_OnSuccessOnly(uploaded_file, ret) ==
    uploaded_file # 0 /\ ret.error = NoError

\* line 282: if uploaded_file
release_needed(uploaded_file, ret) == uploaded_file # 0

cleanup_result_Propagates(filename, ret, outcome) ==
    IF outcome = "delete_failed" THEN error_result(filename, "CleanupError")
    ELSE ret

\* lines 284-288 and 362-363: the except of the finally block prints and
\* does not raise, so the value of the return statement is what
\* process_folder appends, whatever the outcome of delete_file
cleanup_result(filename, ret, outcome) == ret

\* classify_form, lines 280-288, and process_folder, line 363: delete the
\* uploaded file, whatever comes of it, return and append the result
Finally ==
    /\ cf.pc = "finally"
    /\ IF release_needed(cf.uploaded_file, cf.ret)
       THEN \E outcome \in {"delete", "delete_failed"} :
                /\ api_log' = Append(api_log,
                                     Call(outcome, cf.uploaded_file, NoResponse))
                /\ results' = Append(results,
                                     cleanup_result(pdf_files[Len(results) + 1],
                                                    cf.ret, outcome))
       ELSE UNCHANGED api_log /\ results' = Append(results, cf.ret)
    /\ cf' = NoFrame
    /\ UNCHANGED <<form_configs, vvars, pvars, env, oracle, pdf_files, pc, svars, ovars>>

\* main, lines 793-794 and 814-815: save_results, and the except of main
\* when it raises
SaveResults ==
    /\ pc = "save_results"
    /\ LET out == save_results(results, results_file)
       IN /\ results_file' = out.file
          /\ written' = written \cup {"results"}
          /\ IF out.raised
             THEN /\ pc' = "error"
                  /\ console' = Append(console, Line("error", <<>>))
                  /\ exit_status' = ExitSuccess
             ELSE pc' = "save_stats" /\ UNCHANGED <<console, exit_status>>
    /\ UNCHANGED <<form_configs, vvars, pvars, env, oracle, pdf_files, cf, results,
                   api_log, svars>>

\* main, lines 796-797: save_stats
MainSaveStats ==
    /\ pc = "save_stats"
    /\ stats_file' = save_stats(form_configs, stats_file, results, now)
    /\ calls' = Append(calls, [before |-> stats_file, batch |-> results])
    /\ written' = written \cup {"stats"}
    /\ pc' = "summary"
    /\ UNCHANGED <<form_configs, vvars, pvars, env, oracle, pdf_files, cf, results,
                   api_log, now, results_file, console, exit_status>>

\* main, lines 799-812: the summary, and the end of the process
PrintSummary ==
    /\ pc = "summary"
    /\ console' = Append(console, Line("summary", run_summary(results)))
    /\ exit_status' = ExitSuccess
    /\ pc' = "done"
    /\ UNCHANGED <<form_configs, vvars, pvars, env, oracle, pdf_files, cf, results,
                   api_log, svars, results_file, written>>

NextRun == Main \/ ProcessFolder \/ Upload \/ Generate \/ Finally

Spec == InitRun /\ [][NextRun]_vars

-----------------------------------------------------------------------------
(* main() to its end: the batch, save_results, save_stats, the summary.    *)

\* the answers of the oracle in these runs: a form that verifies, a page
\* count off by one, a title with a lone surrogate in it, no JSON at all
MainResponses ==
    {[text |-> ObjectText, obj |-> Answer(KnownForm, <<"a", "b", "a">>, 1)],
     [text |-> ObjectText, obj |-> Answer(KnownForm, <<"a", "b">>, 2)],
     [text |-> ObjectText,
      obj |-> Answer(KnownForm, <<"a", "b", LoneSurrogate>>, 1)],
     [text |-> <<"x">>, obj |-> EmptyDict]}

InitMain ==
    /\ form_configs = <<>>
    /\ env \in [api_key : BOOLEAN, config_ok : BOOLEAN, folder_exists : BOOLEAN]
    /\ pdf_files \in {Folder(n) : n \in 0..MaxDocs}
    /\ pc = "main"
    /\ cf = NoFrame
    /\ results = <<>>
    /\ api_log = <<>>
    /\ oracle = MainResponses
    /\ VerifyIdle
    /\ ParseIdle
    /\ StatsIdle
    /\ OutIdle

NextMain == NextRun \/ SaveResults \/ MainSaveStats \/ PrintSummary

SpecMain == InitMain /\ [][NextMain]_vars

-----------------------------------------------------------------------------
(* save_stats on its own: successive runs on one statistics file, each     *)
(* with a batch of results.                                                *)

\* what the oracle answered for the documents of a batch: the known form
\* with a matching title, an unknown form with a title that ends in
\* whitespace, a title with markup in it
StatsAnswers ==
    {Answer(KnownForm, <<"a", "b", "a">>, 1),
     Answer(UnknownForm, <<"a", " ">>, 1),
     Answer(KnownForm, <<"a", "</tr>">>, 1)}

\* the results classify_form can give for the document at position i
StatsResults(i) ==
    {classify_response(ScenarioConfig, Filename(i), ObjectText, o, RunUsage) :
        o \in StatsAnswers}
    \cup {error_result(Filename(i), "ServerError")}

Batches ==
    UNION {{b \in [1..n -> UNION {StatsResults(i) : i \in 1..n}] :
               \A i \in 1..n : b[i] \in StatsResults(i)} : n \in 0..MaxBatch}

InitStats ==
    /\ form_configs = ScenarioConfig
    /\ stats_file \in {MissingFile, UnreadableFile, NoTableFile}
    /\ now = 1
    /\ calls = <<>>
    /\ VerifyIdle
    /\ ParseIdle
    /\ RunIdle
    /\ OutIdle

\* one run's save_stats(results, stats_file)
SaveStats ==
    /\ now <= MaxRuns
    /\ \E batch \in Batches :
           /\ stats_file' = save_stats(form_configs, stats_file, batch, now)
           /\ calls' = Append(calls, [before |-> stats_file, batch |-> batch])
    /\ now' = now + 1
    /\ UNCHANGED <<form_configs, vvars, pvars, rvars, ovars>>

NextStats == SaveStats

SpecStats == InitStats /\ [][NextStats]_vars

-----------------------------------------------------------------------------
(* classify_form on response objects with keys left out: lines 184-201.    *)

Medium == StrV(<<"Medium">>)
Certain == StrV(<<"Certain">>)

\* a function with the keys of K only
Restrict(f, K) == [k \in K |-> f[k]]

\* the sub-object of one field with any of its two keys left out
SubObjects(value, confs) ==
    {DictV(Restrict(("value" :> value) @@ ("confidence_level" :> c), K)) :
        c \in confs, K \in SUBSET {"value", "confidence_level"}}

FieldKeys == {"form_number", "form_title", "page_count"}

\* the response objects: form_classification left out, or there with any of
\* the three sub-objects left out
PartialObjects ==
    {EmptyDict}
    \cup {DictV("form_classification" :>
                    DictV(Restrict(("form_number" :> fn) @@ ("form_title" :> ft)
                                   @@ ("page_count" :> pg), K))) :
             fn \in SubObjects(StrV(KnownForm), {High, Medium, Low, Certain}),
             ft \in SubObjects(StrV(<<"a", "b", "a">>), {High}),
             pg \in SubObjects(IntV(1), {High}),
             K \in SUBSET FieldKeys}

InitFields ==
    /\ form_configs = ScenarioConfig
    /\ ptext = ObjectText
    /\ pobj \in PartialObjects
    /\ pout = <<>>
    /\ VerifyIdle
    /\ RunIdle
    /\ StatsIdle
    /\ OutIdle

SpecFields == InitFields /\ [][NextParse]_vars

-----------------------------------------------------------------------------
(* save_results on its own: one call, on a file that may be there already. *)

\* the results of a batch: those of StatsResults and one whose title holds
\* a lone surrogate
SavedResults(i) ==
    StatsResults(i)
    \cup {classify_response(ScenarioConfig, Filename(i), ObjectText,
              Answer(KnownForm, <<"a", "b", LoneSurrogate>>, 1), RunUsage)}

ResultBatches ==
    UNION {{b \in [1..n -> UNION {SavedResults(i) : i \in 1..n}] :
               \A i \in 1..n : b[i] \in SavedResults(i)} : n \in 0..MaxBatch}

\* the file an earlier run left
OldResultsFile ==
    ResultsFile("json", <<result_object(error_result(<<"old">>, "ServerError"))>>)

\* the file an earlier run left when its json.dump raised
BrokenResultsFile == ResultsFile("partial", <<>>)

InitResults ==
    /\ form_configs = ScenarioConfig
    /\ results \in ResultBatches
    /\ results_file \in {NoResultsFile, OldResultsFile, BrokenResultsFile}
    /\ console = <<>>
    /\ exit_status = "running"
    /\ written = {}
    /\ env = <<>> /\ pdf_files = <<>> /\ pc = "idle" /\ cf = NoFrame
    /\ api_log = <<>> /\ oracle = {}
    /\ VerifyIdle
    /\ ParseIdle
    /\ StatsIdle

\* save_results(results, output_file); a raise is noted on the console
SaveResultsCall ==
    /\ pc = "idle"
    /\ written = {}
    /\ LET out == save_results(results, results_file)
       IN /\ results_file' = out.file
          /\ console' = IF out.raised THEN <<Line("error", <<>>)>> ELSE console
    /\ written' = {"results"}
    /\ UNCHANGED <<form_configs, vvars, pvars, rvars, svars, exit_status>>

NextResults == SaveResultsCall

SpecResults == InitResults /\ [][NextResults]_vars

-----------------------------------------------------------------------------
(* regenerate_html.py: the script that rebuilds the statistics file from   *)
(* a results JSON.                                                         *)

\* form_classifier.py lines 31-42: the fields of ClassificationResult
DataclassFields ==
    {"filename", "form_number", "form_title", "page_count", "confidence",
     "llm_response", "is_verified", "token_usage", "error"}

\* regenerate_html.py lines 12-23: the keywords the script passes
ScriptKwargs ==
    {"filename", "form_number", "form_title", "page_count", "confidence",
     "llm_response", "is_verified", "token_usage", "match_type",
     "matched_title", "matched_form_number", "error"}

\* the ClassificationResult of one entry of the results JSON
result_from(o) ==
    ClassificationResult(o.d["filename"].s, o.d["form_number"],
        o.d["form_title"], o.d["page_count"], o.d["confidence"],
        o.d["llm_response"], o.d["is_verified"].n = 1,
        [k \in DOMAIN o.d["token_usage"].d |-> o.d["token_usage"].d[k].n],
        IF o.d["error"] = NoneV THEN NoError ELSE o.d["error"].s[1])

\* the script: json.load, a ClassificationResult per entry (a TypeError
\* when a keyword is not a field), then os.remove and save_stats
regenerate_html(configs, rfile, sfile, t) ==
    IF rfile.kind # "json" THEN [file |-> sfile, raised |-> TRUE]
    ELSE IF rfile.entries # <<>> /\ ~(ScriptKwargs \subseteq DataclassFields)
    THEN [file |-> sfile, raised |-> TRUE]
    ELSE [file |-> save_stats(configs, MissingFile,
                       [i \in 1..Len(rfile.entries) |-> result_from(rfile.entries[i])],
                       t),
          raised |-> FALSE]

\* the statistics file an earlier run left
OldStatsFile ==
    fresh_file(<<stats_row(ScenarioConfig, error_result(<<"old">>, "ServerError"), 0)>>)

InitRegen ==
    /\ form_configs = ScenarioConfig
    /\ \E b \in Batches : results_file = save_results(b, NoResultsFile).file
    /\ stats_file \in {MissingFile, NoTableFile, OldStatsFile}
    /\ now = 1
    /\ calls = <<>>
    /\ console = <<>>
    /\ exit_status = "running"
    /\ written = {}
    /\ VerifyIdle
    /\ ParseIdle
    /\ RunIdle

\* one run of the script
Regenerate ==
    /\ pc = "idle"
    /\ LET out == regenerate_html(form_configs, results_file, stats_file, now)
       IN /\ stats_file' = out.file
          /\ pc' = IF out.raised THEN "error" ELSE "done"
          /\ exit_status' = IF out.raised THEN "1" ELSE ExitSuccess
    /\ UNCHANGED <<form_configs, vvars, pvars, env, oracle, pdf_files, cf, results,
                   api_log, now, calls, results_file, console, written>>

NextRegen == Regenerate

SpecRegen == InitRegen /\ [][NextRegen]_vars

-----------------------------------------------------------------------------
(* Properties of the verifier, under SpecVerify *)

\* the four title checks of lines 314-323 on texts already trimmed
TitleChecks(expected, title) ==
    {Contains(Strip(expected.expected_title_1), title),
     Contains(Strip(expected.expected_title_2), title),
     partial_ratio(Strip(expected.expected_title_1), title) >= 85,
     partial_ratio(Strip(expected.expected_title_2), title) >= 85}

VerifyKnown == vin.form_number.t = "str" /\ vin.form_number.s \in DOMAIN form_configs

\* C1: for a form number of the config table, a page count equal to the
\* form's expected_pages and a title that, trimmed, passes at least one of
\* the four title checks (either expected title, trimmed as the code trims
\* it, is a substring of it or has a partial ratio of 85 or more with it),
\* _verify_classification returns True.
C1_MatchVerifies ==
    (/\ vout # "none"
     /\ VerifyKnown
     /\ vin.form_title.t = "str"
     /\ vin.page_count = IntV(form_configs[vin.form_number.s].expected_pages)
     /\ TRUE \in TitleChecks(form_configs[vin.form_number.s],
                             Strip(vin.form_title.s)))
    => vout = "True"

\* a call that returns True on the fuzzy check alone, with a score below 100
C1_Witness ==
    /\ vout = "True"
    /\ VerifyKnown
    /\ LET expected == form_configs[vin.form_number.s]
           title == Strip(vin.form_title.s)
       IN /\ ~Contains(Strip(expected.expected_title_1), title)
          /\ ~Contains(Strip(expected.expected_title_2), title)
          /\ partial_ratio(Strip(expected.expected_title_1), title) \in 85..99
          /\ partial_ratio(Strip(expected.expected_title_2), title) < 85

\* C3: for a form number with no entry in the config table,
\* _verify_classification returns False, whatever the title and page count.
C3_UnknownFormFails ==
    (vout # "none" /\ ~VerifyKnown) => vout = "False"

\* a call with an unknown form number, a null title and the page count 1
C3_Witness ==
    /\ vout = "False"
    /\ vin.form_number = StrV(UnknownForm)
    /\ vin.form_title = NoneV
    /\ vin.page_count = IntV(1)

-----------------------------------------------------------------------------
(* Properties of the response parser, under SpecParse *)

Fields5(r) ==
    <<r.form_number, r.form_title, r.page_count, r.confidence, r.is_verified>>

\* C10: when J is the text of a JSON object, classify_form parses J in a
\* json fence, J in a bare fence and J alone to the same structured response,
\* the object J denotes, and gives results with the same form_number,
\* form_title, page_count, confidence and is_verified.
C10_FencesParseAlike ==
    (pout # <<>> /\ json_loads(ptext, pobj).t = "dict")
    => /\ pout["plain"].error = NoError
       /\ pout["plain"].llm_response = json_loads(ptext, pobj)
       /\ pout["json"].llm_response = pout["plain"].llm_response
       /\ pout["bare"].llm_response = pout["plain"].llm_response
       /\ Fields5(pout["json"]) = Fields5(pout["plain"])
       /\ Fields5(pout["bare"]) = Fields5(pout["plain"])

\* the object text {J}, parsed in its three forms to a verified result
C10_Witness ==
    /\ pout # <<>>
    /\ ptext = <<"{", "J", "}">>
    /\ pout["json"].is_verified
    /\ pout["bare"].is_verified
    /\ pout["plain"].is_verified

-----------------------------------------------------------------------------
(* Properties of a run, under Spec *)

\* the results so far, with the one classify_form is about to return
Produced ==
    {results[i] : i \in 1..Len(results)}
    \cup (IF cf.pc = "finally" THEN {cf.ret} ELSE {})

\* C2: in every result of a run, is_verified implies that form_number is a
\* key of the config table and page_count equals that form's expected_pages.
C2_VerifiedHasExactPages ==
    \A r \in Produced :
        r.is_verified
        => /\ r.form_number.t = "str"
           /\ r.form_number.s \in DOMAIN form_configs
           /\ r.page_count = IntV(form_configs[r.form_number.s].expected_pages)

\* a batch with a verified result and with an answer whose title matches and
\* whose page count is off by one, which is not verified
C2_Witness ==
    /\ \E r \in Produced : r.is_verified
    /\ \E r \in Produced :
           /\ ~r.is_verified
           /\ r.error = NoError
           /\ r.form_number = StrV(KnownForm)
           /\ r.form_title = StrV(<<"a", "b">>)
           /\ r.page_count = IntV(form_configs[KnownForm].expected_pages + 1)

\* C4: process_folder returns exactly one result per file of the folder, in
\* the order of the enumeration, whatever failed for which document.
C4_OneResultPerDocument ==
    /\ Len(results) <= Len(pdf_files)
    /\ \A i \in 1..Len(results) : results[i].filename = pdf_files[i]
    /\ pc = "save_results" => Len(results) = Len(pdf_files)

\* process_folder has returned; the first document failed, the last did not
C4_Witness ==
    /\ pc = "save_results"
    /\ Len(results) >= 2
    /\ results[1].error # NoError
    /\ results[Len(results)].error = NoError

\* the upload, the generation or the parsing of document h's answer failed
Failed(h) ==
    \E k \in 1..Len(api_log) :
        /\ api_log[k].h = h
        /\ \/ api_log[k].op \in {"upload_failed", "generate_failed"}
           \/ /\ api_log[k].op = "generate"
              /\ IsRaise(parse_response(api_log[k].r.text, api_log[k].r.obj))

IsDefaultError(r) ==
    /\ r.form_number = StrV(<<>>)
    /\ r.form_title = StrV(<<>>)
    /\ r.page_count = IntV(0)
    /\ r.confidence = StrV(<<"Low">>)
    /\ r.llm_response = EmptyDict
    /\ r.token_usage = <<>>
    /\ r.is_verified = FALSE
    /\ r.error # "None"

\* C8: if the upload, the generation or the parsing of the answer (the
\* second parse of the brace-span fallback included) fails for a document,
\* classify_form returns a result with empty form_number and form_title,
\* page_count 0, confidence Low, empty response and token usage,
\* is_verified false and an error string.
C8_FailureGivesDefaults ==
    /\ \A h \in 1..Len(results) : Failed(h) => IsDefaultError(results[h])
    /\ (cf.pc = "finally" /\ Failed(Len(results) + 1)) => IsDefaultError(cf.ret)

\* results of an upload that failed, of a generation that failed, of an
\* answer with no JSON and of one whose brace span does not parse
C8_Witness ==
    /\ Len(results) >= 2
    /\ \E k \in 1..Len(api_log) :
           /\ api_log[k].op = "generate"
           /\ api_log[k].r.text = <<"{", "x", "}">>
    /\ \E k \in 1..Len(api_log) : api_log[k].op \in {"upload_failed", "generate_failed"}
    /\ \A h \in 1..Len(results) : Failed(h)

\* the handles the oracle gave out, and the delete_file calls made for one
Uploaded == {api_log[k].h : k \in {j \in 1..Len(api_log) : api_log[j].op = "upload"}}
Deletions(h) ==
    {k \in 1..Len(api_log) :
        api_log[k].h = h /\ api_log[k].op \in {"delete", "delete_failed"}}

\* the handles that exist at the oracle: uploaded and not deleted
LiveHandles ==
    {h \in Uploaded : \A k \in Deletions(h) : api_log[k].op # "delete"}

\* every handle is passed to delete_file at most once, and exactly once by
\* the time the classify_form call that uploaded it has returned
ReleasedOnce ==
    \A h \in Uploaded :
        /\ Cardinality(Deletions(h)) <= 1
        /\ (h <= Len(results) => Cardinality(Deletions(h)) = 1)

\* an upload comes after the delete_file call for every earlier handle
UploadAfterRelease ==
    \A k \in 1..Len(api_log) :
        api_log[k].op \in {"upload", "upload_failed"}
        => \A g \in Uploaded :
               g < api_log[k].h => \E j \in Deletions(g) : j < k

\* C9 as claimed: every handle of a successful upload is passed to
\* delete_file exactly once before classify_form returns, on every path; at
\* most one uploaded handle is live at any moment of a batch; the next upload
\* starts only after the release of the previous handle was attempted.
C9_AtMostOneLive ==
    /\ ReleasedOnce
    /\ Cardinality(LiveHandles) <= 1
    /\ UploadAfterRelease

\* C9 as amended: the same, with "live" replaced by "awaiting its
\* delete_file call": a handle whose deletion failed stays live at the oracle
\* while the later documents are uploaded.
C9_AtMostOneUnreleased ==
    /\ ReleasedOnce
    /\ Cardinality({h \in Uploaded : Deletions(h) = {}}) <= 1
    /\ UploadAfterRelease

\* two documents uploaded, the first one's generation failed and the
\* deletion of its handle failed too, both calls returned
C9_Witness ==
    /\ Len(results) = 2
    /\ Uploaded = {1, 2}
    /\ results[1].error # NoError
    /\ \E k \in Deletions(1) : api_log[k].op = "delete_failed"
    /\ results[2].error = NoError


IsPrefix(a, b) == Len(a) <= Len(b) /\ SubSeq(b, 1, Len(a)) = a

LastCall == calls[Len(calls)]

\* C5: starting from no statistics file, after N successive save_stats
\* calls with k results each the table body holds exactly N*k rows.
C5_RowsAreNTimesK ==
    (/\ calls # <<>>
     /\ calls[1].before = MissingFile
     /\ \A i \in 1..Len(calls) : Len(calls[i].batch) = Len(calls[1].batch))
    => Len(TableRows(stats_file)) = Len(calls) * Len(calls[1].batch)

\* C6: the rows of the table before a save_stats call are a prefix of the
\* rows after it, and the call adds a row per result of the run.
C6_RowsOnlyAppended ==
    calls # <<>>
    => /\ IsPrefix(TableRows(LastCall.before), TableRows(stats_file))
       /\ Len(TableRows(stats_file))
              = Len(TableRows(LastCall.before)) + Len(LastCall.batch)

\* C7: when the file was missing, or was there and was not a table, the
\* file after save_stats is a table with the 13-column header row that
\* holds a row per result of the run.
C7_UnparseableFileRecreated ==
    (calls # <<>> /\ LastCall.before.kind # "table")
    => /\ stats_file.kind = "table"
       /\ stats_file.thead = headers
       /\ Len(stats_file.thead) = 13
       /\ Len(TableRows(stats_file)) = Len(LastCall.batch)


\* the value under obj.form_classification.<field>.<key>, or default where
\* one of the three keys is absent
Present(obj, field, key) ==
    /\ "form_classification" \in DOMAIN obj.d
    /\ field \in DOMAIN obj.d["form_classification"].d
    /\ key \in DOMAIN obj.d["form_classification"].d[field].d

ValueOr(obj, field, key, default) ==
    IF Present(obj, field, key)
    THEN obj.d["form_classification"].d[field].d[key]
    ELSE default

\* C11: for a parsed response object with form_classification, any of its
\* sub-objects or any of their value / confidence_level keys absent,
\* classify_form returns a result with error None, in which an absent form
\* number or title is '', an absent page count 0, an absent confidence 'Low'.
C11_MissingKeysDefault ==
    (pout # <<>> /\ pobj \in PartialObjects)
    => /\ pout["plain"].error = NoError
       /\ pout["plain"].form_number
              = ValueOr(pobj, "form_number", "value", StrV(<<>>))
       /\ pout["plain"].form_title
              = ValueOr(pobj, "form_title", "value", StrV(<<>>))
       /\ pout["plain"].page_count
              = ValueOr(pobj, "page_count", "value", IntV(0))
       /\ pout["plain"].confidence
              = ValueOr(pobj, "form_number", "confidence_level", Low)

\* a result for a known form number whose title, page count and confidence
\* are all absent
C11_Witness ==
    /\ pout # <<>>
    /\ Present(pobj, "form_number", "value")
    /\ "form_title" \notin DOMAIN pobj.d["form_classification"].d
    /\ ~Present(pobj, "page_count", "value")
    /\ ~Present(pobj, "form_number", "confidence_level")
    /\ pout["plain"].error = NoError
    /\ pout["plain"].form_title = StrV(<<>>)
    /\ pout["plain"].page_count = IntV(0)
    /\ pout["plain"].confidence = Low


ConfigError == ~env.api_key \/ ~env.config_ok \/ ~env.folder_exists

\* C12: when the API key is missing, the config file is missing or
\* malformed, or the input folder does not exist, the run ends with no
\* document uploaded or classified and with neither the results JSON nor
\* the statistics file written.
C12_ConfigErrorWritesNothing ==
    (pc # "idle" /\ ConfigError)
    => /\ api_log = <<>>
       /\ results = <<>>
       /\ cf = NoFrame
       /\ written = {}
       /\ results_file = NoResultsFile
       /\ stats_file = MissingFile
       /\ pc \in {"main", "process_folder", "no_key", "error"}
       /\ (pc = "process_folder" => env.api_key /\ env.config_ok)

\* a run with a key and a config that ended at the missing folder, with
\* documents waiting
C12_Witness ==
    /\ pc = "error"
    /\ env.api_key /\ env.config_ok /\ ~env.folder_exists
    /\ pdf_files # <<>>
    /\ exit_status = ExitSuccess
    /\ written = {}


\* C13: with no API key the CLI prints an error message and terminates
\* with a non-zero status, having processed nothing.
C13_MissingKeyExitsNonZero ==
    (pc # "idle" /\ pc # "main" /\ ~env.api_key)
    => /\ pc = "no_key"
       /\ console = <<Line("no_key", <<>>)>>
       /\ api_log = <<>> /\ results = <<>> /\ written = {}
       /\ exit_status # "running"
       /\ exit_status # ExitSuccess


ResultFields ==
    {"filename", "form_number", "form_title", "page_count", "confidence",
     "is_verified", "token_usage", "llm_response", "error"}

\* C14: after save_results(results, path) the file is a JSON array with one
\* object per result of the run, in order, carrying the nine fields with
\* the result's values, whatever the file held before.
C14_ResultsFileIsTheRun ==
    ("results" \in written)
    => /\ results_file.kind = "json"
       /\ Len(results_file.entries) = Len(results)
       /\ \A i \in 1..Len(results) :
              LET o == results_file.entries[i]
                  r == results[i]
              IN /\ o.t = "dict"
                 /\ DOMAIN o.d = ResultFields
                 /\ o.d["filename"] = StrV(r.filename)
                 /\ o.d["form_number"] = r.form_number
                 /\ o.d["form_title"] = r.form_title
                 /\ o.d["page_count"] = r.page_count
                 /\ o.d["confidence"] = r.confidence
                 /\ o.d["is_verified"] = BoolV(r.is_verified)
                 /\ o.d["llm_response"] = r.llm_response
                 /\ (r.error = NoError <=> o.d["error"] = NoneV)
                 /\ DOMAIN o.d["token_usage"].d = DOMAIN r.token_usage


\* the rows of the table whose thirteenth cell, the success cell, reads text
SuccessRows(file, text) ==
    {i \in 1..Len(TableRows(file)) :
        /\ Len(TableRows(file)[i]) >= 13
        /\ TableRows(file)[i][13] = text}

\* C15: after every save_stats call the summary banner of the file shows
\* total = the rows of the table body, verified = the rows whose success
\* cell is 'Yes', failed = the rows whose success cell is 'No'.
C15_BannerCountsRows ==
    calls # <<>>
    => /\ stats_file.summary.total = Len(TableRows(stats_file))
       /\ stats_file.summary.verified
              = Cardinality(SuccessRows(stats_file, <<"Yes">>))
       /\ stats_file.summary.failed
              = Cardinality(SuccessRows(stats_file, <<"No">>))


\* C16: every run that gets past configuration and finishes the batch
\* prints a final summary with the total, verified, failed and error counts
\* and the aggregate token usage of the run's results (stated here for the
\* runs whose results used tokens).
C16_SummaryPrinted ==
    (exit_status # "running" /\ ~ConfigError /\ SumTokens(results) > 0)
    => \E i \in 1..Len(console) :
           /\ console[i].msg = "summary"
           /\ console[i].data.total = Len(results)
           /\ console[i].data.verified
                  = Cardinality({j \in 1..Len(results) : results[j].is_verified})
           /\ console[i].data.errors
                  = Cardinality({j \in 1..Len(results) : results[j].error # NoError})
           /\ console[i].data.failed
                  = Cardinality({j \in 1..Len(results) :
                                    ~results[j].is_verified
                                    /\ results[j].error = NoError})
           /\ console[i].data.tokens = <<SumTokens(results)>>


\* the rows the first save_stats call wrote into a file it created
FirstRows == new_rows(form_configs, calls[1].batch, 1)

\* C17: the text of each of the 13 cells of a row written to the
\* statistics file, as a later save_stats call reads it back to write it
\* again, is the text first written, character for character.
C17_CellTextRoundTrip ==
    (Len(calls) >= 2 /\ calls[1].before.kind \in {"missing", "unreadable"})
    => \A c \in 2..Len(calls) :
           LET back == existing_rows(calls[c].before)
           IN /\ Len(back) >= Len(FirstRows)
              /\ \A i \in 1..Len(FirstRows) : \A j \in 1..13 :
                     back[i][j] = FirstRows[i][j]


\* C18: in every ClassificationResult that classify_form returns, the
\* confidence field is one of 'High', 'Medium' or 'Low', for every response
\* the oracle can return.
C18_ConfidenceIsALabel ==
    pout # <<>> => pout["plain"].confidence \in {High, Medium, Low}


\* C19: after regenerate_html.py has run on a results JSON written by
\* save_results, the statistics file holds exactly one row per entry of the
\* results JSON and no row of the previous file.
C19_RegeneratedFromResults ==
    (pc \in {"done", "error"} /\ results_file.kind = "json")
    => /\ pc = "done"
       /\ stats_file.kind = "table"
       /\ Len(TableRows(stats_file)) = Len(results_file.entries)
       /\ \A i \in 1..Len(TableRows(stats_file)) :
              TableRows(stats_file)[i][1] = results_file.entries[i].d["filename"].s


BlankExpected ==
    \/ Strip(form_configs[vin.form_number.s].expected_title_1) = <<>>
    \/ Strip(form_configs[vin.form_number.s].expected_title_2) = <<>>

\* C20: when expected_title_1 or expected_title_2 of a known form is empty
\* or only whitespace, the title counts as matched for every extracted
\* title, so _verify_classification returns True exactly when page_count
\* equals expected_pages.
C20_BlankExpectedMatchesAll ==
    (vout # "none" /\ VerifyKnown /\ vin.form_title.t = "str" /\ BlankExpected)
    => (vout = "True"
        <=> vin.page_count = IntV(form_configs[vin.form_number.s].expected_pages))

\* a call verified for a title that has nothing of the other expected title,
\* the second expected title being whitespace only
C20_Witness ==
    /\ vout = "True"
    /\ VerifyKnown
    /\ form_configs[vin.form_number.s].expected_title_2 = <<" ">>
    /\ vin.form_title.s = <<"b", "b", " ", "b">>
    /\ ~Contains(form_configs[vin.form_number.s].expected_title_1,
                 Strip(vin.form_title.s))
    /\ partial_ratio(form_configs[vin.form_number.s].expected_title_1,
                     Strip(vin.form_title.s)) < 85

-----------------------------------------------------------------------------
(* Properties of a run on answers with a null title, under Spec *)

\* the answer parses to an object whose form_number value is a key of the
\* config table and whose form_title has a value key that is null
NullTitleOfKnownForm(r) ==
    LET llm_response == parse_response(r.text, r.obj)
    IN /\ llm_response.t = "dict"
       /\ Present(llm_response, "form_number", "value")
       /\ known_form(form_configs,
                     ValueOr(llm_response, "form_number", "value", NoneV))
       /\ Present(llm_response, "form_title", "value")
       /\ ValueOr(llm_response, "form_title", "value", StrV(<<>>)) = NoneV

\* the documents whose answer was such an object
NullTitleDocs ==
    {api_log[k].h : k \in {j \in 1..Len(api_log) :
                               /\ api_log[j].op = "generate"
                               /\ NullTitleOfKnownForm(api_log[j].r)}}

\* C21: when the parsed response carries a form_number value that is in the
\* config table and a form_title whose value key is present but null,
\* classify_form takes the failure path: its result has error set,
\* is_verified false and all typed fields, the response and the token usage
\* at their defaults, so the extracted form number and page count are
\* discarded; it is not a non-error unverified result.
C21_NullTitleFails ==
    \A h \in NullTitleDocs :
        /\ h <= Len(results) => IsDefaultError(results[h])
        /\ (h = Len(results) + 1 /\ cf.pc = "finally") => IsDefaultError(cf.ret)

\* classify_form has returned for a document whose answer, in a json fence,
\* named the known form, its page count and a null title
C21_Witness ==
    /\ Len(results) >= 1
    /\ 1 \in NullTitleDocs
    /\ \E k \in 1..Len(api_log) :
           /\ api_log[k].op = "generate"
           /\ api_log[k].h = 1
           /\ api_log[k].r.text = InJsonFence(ObjectText)
           /\ ValueOr(api_log[k].r.obj, "page_count", "value", NoneV)
                  = IntV(form_configs[KnownForm].expected_pages)
    /\ results[1].error = "AttributeError"

\* the step in which delete_file fails
ReleaseFails ==
    /\ cf.pc = "finally"
    /\ Len(api_log') = Len(api_log) + 1
    /\ api_log'[Len(api_log')].op = "delete_failed"

\* the log entry that follows the last call made for document h, if any
NextCallAfter(h) ==
    LET last == CHOOSE k \in Deletions(h) : TRUE
    IN IF last < Len(api_log) THEN {api_log[last + 1]} ELSE {}

\* C22: if releasing the uploaded handle fails, the failure is swallowed:
\* classify_form returns the result it was returning before the release,
\* success or error result alike, process_folder appends it, and the batch
\* goes on: the next call to the oracle is the upload of the next document,
\* and process_folder returns one result per file.
C22_ReleaseFailureSwallowed ==
    /\ [][ReleaseFails => /\ results' = Append(results, cf.ret)
                          /\ cf' = NoFrame
                          /\ pc' = "process_folder"]_vars
    /\ [](\A h \in Uploaded :
              (\E k \in Deletions(h) : api_log[k].op = "delete_failed")
              => /\ \A c \in NextCallAfter(h) :
                        c.h = h + 1 /\ c.op \in {"upload", "upload_failed"}
                 /\ pc \in {"process_folder", "save_results"}
                 /\ (pc = "save_results" => Len(results) = Len(pdf_files)))

\* a batch of two whose releases both failed: the first document's verified
\* result and the second one's error result were returned all the same
C22_Witness ==
    /\ pc = "save_results"
    /\ Len(results) = 2
    /\ \A h \in {1, 2} : \E k \in Deletions(h) : api_log[k].op = "delete_failed"
    /\ results[1].is_verified
    /\ results[1].token_usage = RunUsage
    /\ results[2].error = "ServerError"

=============================================================================
